---- MODULE Spec2Model ----
(***************************************************************************)
(* A model of ccut ("like cut, but for CSVs"): the quote/escape-aware      *)
(* field tokenizer (_split_line), the column selector (cut_line) and the   *)
(* column-spec parser (parse_cols) of src/src/main.rs.                     *)
(*                                                                         *)
(* Text is modelled as a sequence of characters (Unicode scalar values),   *)
(* each character being a one-character TLA+ string, except "U00E9" which  *)
(* stands for the two-byte scalar value U+00E9.  A Rust &str slice is      *)
(* modelled by the sequence of its UTF-8 bytes, because the code slices    *)
(* the line by byte offsets.                                               *)
(***************************************************************************)
EXTENDS Integers, Sequences, FiniteSets, TLC

VARIABLES
    raw,          \* cut_line / _split_line: the argument `line` (characters)
    line,         \* _split_line: the shadowed `line` = line.trim()
    i,            \* _split_line: index of the next character of the enumerate() loop
    state,        \* _split_line: QuoteState
    field_start,  \* _split_line: field_start
    fields,       \* _split_line: the Vec of field slices (each a byte sequence)
    trace,        \* history: trace[k] is the QuoteState in which character k was scanned
    cols,         \* cut_line: the argument `cols`
    res,          \* cut_line: the returned String (bytes)
    pc,           \* position: "call", "scan", "select", "done" or "panic"
    colsArg,      \* parse_cols: the argument `cols` (characters)
    offset,       \* parse_cols: the argument `offset`
    checks,       \* the build: TRUE when arithmetic overflow is checked (debug profile)
    elems,        \* parse_cols: the elements of cols.split(',')
    pk,           \* parse_cols: the number of elements the loop has finished
    pres,         \* parse_cols: the Vec `res`
    plog,         \* history: plog[k] is what element k pushed
    ppc,          \* position: "call", "loop", "returned" or "panic"
    pmsg,         \* the panic message, when ppc = "panic" or mpc = "panic"
    preview,      \* main: the flag -p
    input,        \* stdin: what the read_line calls so far found, each a line or ReadError
    rd,           \* stdin: the number of read_line calls that found a line or failed
    eof,          \* stdin: TRUE once a read_line has returned Ok(0)
    mline,        \* main: the String `line` read_line appends to
    mcols,        \* main: `cols` after parse_cols
    stdout,       \* stdout: the lines printed (bytes, without the newline)
    mpc           \* position: "args", "start", "pprint", "read", "cut", "clear", "exit" or "panic"

cutVars == <<raw, line, i, state, field_start, fields, trace, cols, res, pc>>

parseVars == <<colsArg, offset, checks, elems, pk, pres, plog, ppc, pmsg>>

mainVars == <<preview, input, rd, eof, mline, mcols, stdout, mpc>>

vars == <<cutVars, parseVars, mainVars>>

----------------------------------------------------------------------------
(* Bounds of the model.                                                    *)

(* The longest input line enumerated (the lines of the tests are added). *)
MaxLen == 4

(* The longest list of column indices given to cut_line. *)
MaxCols == 2

(* The largest small column index given to cut_line (usize::MAX is added). *)
MaxCol == 1

(* The longest column spec enumerated (the specs of the tests are added). *)
MaxSpecLen == 4

(* The largest number of read_line results on stdin. *)
MaxReads == 2

(* The width of usize in the model.  The program's usize has 64 bits; the
   model keeps its modular arithmetic at a width whose values TLC's integers
   can hold. *)
UsizeBits == 16

----------------------------------------------------------------------------
(* Characters and bytes.                                                   *)

Comma == ","

SQuote == "'"

DQuote == "\""

Backslash == "\\"

Wide == "U00E9"

Alphabet == {"a", Comma, SQuote, DQuote, Backslash, " ", Wide}

(* char::is_whitespace, restricted to the characters the model uses. *)
IsWhitespace(c) == c \in {" ", "\t", "\n", "\r"}

(* The UTF-8 encoding of one character: U+00E9 is the two bytes C3 A9, every
   other character of the model is ASCII and is its own single byte. *)
CharBytes(c) == IF c = Wide THEN <<"xC3", "xA9">> ELSE <<c>>

RECURSIVE Utf8(_)
Utf8(s) == IF s = <<>> THEN <<>> ELSE CharBytes(Head(s)) \o Utf8(Tail(s))

(* A UTF-8 continuation byte (10xxxxxx). *)
IsContinuation(b) == b \in {"xA9"}

(* str::is_char_boundary *)
IsCharBoundary(bytes, n) ==
    \/ n = 0
    \/ n = Len(bytes)
    \/ n < Len(bytes) /\ ~IsContinuation(bytes[n + 1])

(* Whether &s[a..b] returns (it panics otherwise). *)
SliceOk(bytes, a, b) ==
    /\ a <= b
    /\ b <= Len(bytes)
    /\ IsCharBoundary(bytes, a)
    /\ IsCharBoundary(bytes, b)

(* &s[a..b], by byte offsets. *)
Slice(bytes, a, b) == SubSeq(bytes, a + 1, b)

(* str::trim: drops leading and trailing whitespace. *)
RECURSIVE TrimStart(_)
TrimStart(s) ==
    IF s # <<>> /\ IsWhitespace(Head(s)) THEN TrimStart(Tail(s)) ELSE s

RECURSIVE TrimEnd(_)
TrimEnd(s) ==
    IF s # <<>> /\ IsWhitespace(s[Len(s)])
    THEN TrimEnd(SubSeq(s, 1, Len(s) - 1))
    ELSE s

Trim(s) == TrimEnd(TrimStart(s))

----------------------------------------------------------------------------
(* _split_line                                                             *)

QuoteStates == {"Normal", "SingleQuote", "DoubleQuote", "SingleEscape", "DoubleEscape"}

(* EndsField with a comma ending a field inside single quotes as well. *)
EndsFieldAnyQuote(st, c) == st \in {"Normal", "SingleQuote"} /\ c = Comma

(* The first arm of the match: the character ends a field. *)
EndsField(st, c) == st = "Normal" /\ c = Comma

(* NextState with the quote arms tried before the escape arms, so that an
   escaped quote character closes the quote. *)
NextStateEscapedQuoteCloses(st, c) ==
    CASE st = "Normal" /\ c = Comma                                -> st
      [] st = "Normal" /\ c = SQuote                               -> "SingleQuote"
      [] st \in {"SingleQuote", "SingleEscape"} /\ c = SQuote      -> "Normal"
      [] st = "Normal" /\ c = DQuote                               -> "DoubleQuote"
      [] st \in {"DoubleQuote", "DoubleEscape"} /\ c = DQuote      -> "Normal"
      [] st = "SingleQuote" /\ c = Backslash                       -> "SingleEscape"
      [] st = "SingleEscape"                                       -> "SingleQuote"
      [] st = "DoubleQuote" /\ c = Backslash                       -> "DoubleEscape"
      [] st = "DoubleEscape"                                       -> "DoubleQuote"
      [] OTHER                                                     -> st

(* NextState with either quote character closing either kind of quote. *)
NextStateAnyQuoteCloses(st, c) ==
    CASE st = "Normal" /\ c = Comma                                -> st
      [] st = "Normal" /\ c = SQuote                               -> "SingleQuote"
      [] st = "SingleQuote" /\ c \in {SQuote, DQuote}              -> "Normal"
      [] st = "Normal" /\ c = DQuote                               -> "DoubleQuote"
      [] st = "DoubleQuote" /\ c \in {SQuote, DQuote}              -> "Normal"
      [] st = "SingleQuote" /\ c = Backslash                       -> "SingleEscape"
      [] st = "SingleEscape"                                       -> "SingleQuote"
      [] st = "DoubleQuote" /\ c = Backslash                       -> "DoubleEscape"
      [] st = "DoubleEscape"                                       -> "DoubleQuote"
      [] OTHER                                                     -> st

(* NextState with a backslash escaping the next character outside quotes
   as well. *)
NextStateEscapeOutsideQuotes(st, c) ==
    CASE st = "Normal" /\ c = Comma          -> st
      [] st = "Normal" /\ c = SQuote         -> "SingleQuote"
      [] st = "SingleQuote" /\ c = SQuote    -> "Normal"
      [] st = "Normal" /\ c = DQuote         -> "DoubleQuote"
      [] st = "DoubleQuote" /\ c = DQuote    -> "Normal"
      [] st = "Normal" /\ c = Backslash      -> "NormalEscape"
      [] st = "NormalEscape"                 -> "Normal"
      [] st = "SingleQuote" /\ c = Backslash -> "SingleEscape"
      [] st = "SingleEscape"                 -> "SingleQuote"
      [] st = "DoubleQuote" /\ c = Backslash -> "DoubleEscape"
      [] st = "DoubleEscape"                 -> "DoubleQuote"
      [] OTHER                               -> st

(* The state assignments of the match arms, in the order of the arms. *)
NextState(st, c) ==
    CASE st = "Normal" /\ c = Comma          -> st
      [] st = "Normal" /\ c = SQuote         -> "SingleQuote"
      [] st = "SingleQuote" /\ c = SQuote    -> "Normal"
      [] st = "Normal" /\ c = DQuote         -> "DoubleQuote"
      [] st = "DoubleQuote" /\ c = DQuote    -> "Normal"
      [] st = "SingleQuote" /\ c = Backslash -> "SingleEscape"
      [] st = "SingleEscape"                 -> "SingleQuote"
      [] st = "DoubleQuote" /\ c = Backslash -> "DoubleEscape"
      [] st = "DoubleEscape"                 -> "DoubleQuote"
      [] OTHER                               -> st

(* The tokenizer's local state at the start of the loop. *)
SplitStart == [state |-> "Normal", field_start |-> 0, fields |-> <<>>, ok |-> TRUE]

(* One iteration of the loop, for the character with index idx of ln. *)
SplitStep(s, ln, idx) ==
    LET c == ln[idx + 1]
        bytes == Utf8(ln)
    IN  IF EndsField(s.state, c)
        THEN IF SliceOk(bytes, s.field_start, idx)
             THEN [state |-> NextState(s.state, c),
                   field_start |-> idx + 1,
                   fields |-> Append(s.fields, Slice(bytes, s.field_start, idx)),
                   ok |-> TRUE]
             ELSE [s EXCEPT !.ok = FALSE]
        ELSE [s EXCEPT !.state = NextState(s.state, c)]

(* The push of the last field after the loop. *)
SplitLast(s, ln) ==
    LET bytes == Utf8(ln)
    IN  IF SliceOk(bytes, s.field_start, Len(bytes))
        THEN [s EXCEPT !.fields = Append(s.fields, Slice(bytes, s.field_start, Len(bytes)))]
        ELSE [s EXCEPT !.ok = FALSE]

(* The loop and the final push; the record after each iteration is bound
   (t) before the loop goes on, so that it is computed once. *)
RECURSIVE SplitLoop(_, _, _)
SplitLoop(s, ln, idx) ==
    IF ~s.ok THEN s
    ELSE IF idx = Len(ln) THEN SplitLast(s, ln)
    ELSE CHOOSE r \in {SplitLoop(t, ln, idx + 1) : t \in {SplitStep(s, ln, idx)}} : TRUE

(* _split_line as a function: .ok is FALSE when it panics, else .fields is
   what it returns. *)
SplitLine(r) == SplitLoop(SplitStart, Trim(r), 0)

----------------------------------------------------------------------------
(* cut_line, step 2                                                        *)

(* SelectFields with an index out of bounds skipped instead of rendered as "". *)
RECURSIVE SelectFieldsSkipOob(_, _)
SelectFieldsSkipOob(fs, cs) ==
    IF cs = <<>> THEN <<>>
    ELSE (IF Head(cs) >= Len(fs) THEN <<>> ELSE <<fs[Head(cs) + 1]>>)
         \o SelectFieldsSkipOob(fs, Tail(cs))

(* The loop over cols: one entry per index, "" for an index out of bounds. *)
RECURSIVE SelectFields(_, _)
SelectFields(fs, cs) ==
    IF cs = <<>> THEN <<>>
    ELSE <<(IF Head(cs) >= Len(fs) THEN <<>> ELSE fs[Head(cs) + 1])>>
         \o SelectFields(fs, Tail(cs))

(* [&str]::join(",") *)
RECURSIVE Join(_)
Join(ss) ==
    IF ss = <<>> THEN <<>>
    ELSE IF Len(ss) = 1 THEN ss[1]
    ELSE ss[1] \o <<Comma>> \o Join(Tail(ss))

----------------------------------------------------------------------------
(* parse_cols                                                              *)

(* usize::MAX *)
UsizeMax == 2 ^ UsizeBits - 1

DigitChars == <<"0", "1", "2", "3", "4", "5", "6", "7", "8", "9">>

IsDigit(c) == \E d \in 1 .. 10 : DigitChars[d] = c

DigitVal(c) == (CHOOSE d \in 1 .. 10 : DigitChars[d] = c) - 1

RECURSIVE DecVal(_)
DecVal(s) == IF s = <<>> THEN 0 ELSE DecVal(SubSeq(s, 1, Len(s) - 1)) * 10 + DigitVal(s[Len(s)])

(* str::parse::<usize>: an optional "+", then at least one decimal digit,
   the value no more than usize::MAX. *)
ParseUsize(s) ==
    LET digits == IF s # <<>> /\ s[1] = "+" THEN Tail(s) ELSE s
        ok == /\ digits # <<>>
              /\ \A j \in 1 .. Len(digits) : IsDigit(digits[j])
              /\ DecVal(digits) <= UsizeMax
    IN  [ok |-> ok, val |-> IF ok THEN DecVal(digits) ELSE 0]

(* str::split(sep): the segments between the separators, at least one. *)
RECURSIVE SplitOn(_, _)
SplitOn(s, sep) ==
    IF \A j \in 1 .. Len(s) : s[j] # sep THEN <<s>>
    ELSE LET j == CHOOSE j \in 1 .. Len(s) :
                      s[j] = sep /\ \A h \in 1 .. j - 1 : s[h] # sep
         IN  <<SubSeq(s, 1, j - 1)>> \o SplitOn(SubSeq(s, j + 1, Len(s)), sep)

(* x - y on usize: a panic when overflow is checked, wrapped otherwise. *)
SubUsize(x, y, chk) ==
    IF x >= y THEN [ok |-> TRUE, val |-> x - y]
    ELSE IF chk THEN [ok |-> FALSE, val |-> 0]
    ELSE [ok |-> TRUE, val |-> x - y + 2 ^ UsizeBits]

(* x + y on usize: a panic when overflow is checked, wrapped otherwise. *)
AddUsize(x, y, chk) ==
    IF x + y <= UsizeMax THEN [ok |-> TRUE, val |-> x + y]
    ELSE IF chk THEN [ok |-> FALSE, val |-> 0]
    ELSE [ok |-> TRUE, val |-> x + y - 2 ^ UsizeBits]

(* EndpointsOk with the closed-range test for either offset. *)
EndpointsOkClosed(a, b, off) == a <= b

(* The assertion on the end-points of a range. *)
EndpointsOk(a, b, off) == IF off = 0 THEN a < b ELSE a <= b

(* for i in a..hi { res.push(i - offset) }, where offset <= a. *)
RangeIndices(a, hi, off) == [j \in 1 .. (hi - a) |-> a + (j - 1) - off]

(* Panic without the message of the failed assertion. *)
PanicNoMessage(m) == [ok |-> FALSE, idxs |-> <<>>, msg |-> ""]

Panic(m) == [ok |-> FALSE, idxs |-> <<>>, msg |-> m]

(* The body of the loop for one element: .ok is FALSE when it panics (with
   the message), else .idxs is what it pushes. *)
ElemResult(e, off, chk) ==
    LET elem == Trim(e)
    IN  IF \E j \in 1 .. Len(elem) : elem[j] = "-"
        THEN LET rg == SplitOn(elem, "-")
             IN  IF Len(rg) # 2 THEN Panic("Invalid range (parts)")
                 ELSE LET a == ParseUsize(rg[1])
                          b == ParseUsize(rg[2])
                      IN  IF ~a.ok THEN Panic("Invalid range: start index is not an integer")
                          ELSE IF ~b.ok THEN Panic("Invalid range: end index is not an integer")
                          ELSE IF ~(off <= a.val) THEN Panic("Start index must be at least offset")
                          ELSE IF ~EndpointsOk(a.val, b.val, off) THEN Panic("Overlapping end-points")
                          ELSE LET hi == AddUsize(b.val, off, chk)
                               IN  IF ~hi.ok THEN Panic("attempt to add with overflow")
                                   ELSE [ok |-> TRUE,
                                         idxs |-> RangeIndices(a.val, hi.val, off),
                                         msg |-> ""]
        ELSE LET n == ParseUsize(elem)
             IN  IF ~n.ok THEN Panic("Invalid index")
                 ELSE LET d == SubUsize(n.val, off, chk)
                      IN  IF ~d.ok THEN Panic("attempt to subtract with overflow")
                          ELSE [ok |-> TRUE, idxs |-> <<d.val>>, msg |-> ""]

----------------------------------------------------------------------------
(* The inputs.                                                             *)

RECURSIVE SeqsUpTo(_, _)
SeqsUpTo(S, n) ==
    IF n = 0 THEN {<<>>}
    ELSE LET shorter == SeqsUpTo(S, n - 1)
         IN  shorter \cup {Append(s, x) : s \in {t \in shorter : Len(t) = n - 1}, x \in S}

(* The lines of the tests of src/src/line.rs that are longer than MaxLen. *)
TestLines ==
    { <<"a", ",", "b", ",", "c", ",", "d", ",", "e", ",", "f">>,
      <<" ", "a", ",", "b", ",", "c", " ", " ">>,
      <<"a", ",", "\"", "b", ",", "c", "\"">>,
      <<"a", ",", "'", "b", ",", "c", "'">>,
      <<"a", ",", "'", "\"", "b", "\"", "\"", "'", ",", "c">>,
      <<"a", ",", "'", "b", ",", "b", "\"", ",", "c">>,
      <<"a", ",", "'", "b", "\\", "'", "\\", "\"", ",", "b", "'", ",", "c">>,
      <<"a", ",", "\"", "b", "\\", "\\", "\\", "\"", ",", "b", "\"", ",", "c">> }

Lines == SeqsUpTo(Alphabet, MaxLen) \cup TestLines

ColLists == SeqsUpTo((0 .. MaxCol) \cup {UsizeMax}, MaxCols) \cup {<<0, 1, 2>>}

(* The decimal numeral of n. *)
RECURSIVE Decimal(_)
Decimal(n) ==
    IF n < 10 THEN <<DigitChars[n + 1]>>
    ELSE Append(Decimal(n \div 10), DigitChars[(n % 10) + 1])

SpecAlphabet == {"0", "1", "2", Comma, "-", "+", " ", "a"}

(* The column specs of the tests of src/src/main.rs that are longer than
   MaxSpecLen, and a range that ends at usize::MAX. *)
TestSpecs ==
    { <<"1", "-", "3", ",", "5", ",", "7">>,
      <<"0", "-", "5", ",", "1", ",", "2">>,
      <<"5", ",", "1", "-", "3", ",", "0">>,
      <<"0", "-", "1", "-", "2">>,
      <<"-", "1", "-", "5">>,
      Decimal(UsizeMax) \o <<"-">> \o Decimal(UsizeMax) }

ColSpecs == SeqsUpTo(SpecAlphabet, MaxSpecLen) \cup TestSpecs

CutIdle ==
    /\ raw = <<>>
    /\ line = <<>>
    /\ i = 0
    /\ state = "Normal"
    /\ field_start = 0
    /\ fields = <<>>
    /\ trace = <<>>
    /\ cols = <<>>
    /\ res = <<>>
    /\ pc = "idle"

ParseIdle ==
    /\ colsArg = <<>>
    /\ offset = 1
    /\ checks = TRUE
    /\ elems = <<>>
    /\ pk = 0
    /\ pres = <<>>
    /\ plog = <<>>
    /\ ppc = "idle"
    /\ pmsg = ""

MainIdle ==
    /\ preview = FALSE
    /\ input = <<>>
    /\ rd = 0
    /\ eof = FALSE
    /\ mline = <<>>
    /\ mcols = <<>>
    /\ stdout = <<>>
    /\ mpc = "idle"

----------------------------------------------------------------------------
(* cut_line(line, cols), the tokenizer taken one loop iteration at a time. *)

Init ==
    /\ raw \in Lines
    /\ line = <<>>
    /\ i = 0
    /\ state = "Normal"
    /\ field_start = 0
    /\ fields = <<>>
    /\ trace = <<>>
    /\ cols = <<>>
    /\ res = <<>>
    /\ pc = "call"
    /\ ParseIdle
    /\ MainIdle

(* The entry of _split_line: trim and the initial locals. *)
SplitBegin ==
    /\ pc = "call"
    /\ line' = Trim(raw)
    /\ i' = 0
    /\ state' = SplitStart.state
    /\ field_start' = SplitStart.field_start
    /\ fields' = SplitStart.fields
    /\ pc' = "scan"
    /\ UNCHANGED <<raw, trace, cols, res>>
    /\ UNCHANGED parseVars
    /\ UNCHANGED mainVars

(* One iteration of the loop over line.chars().enumerate(). *)
ScanChar ==
    /\ pc = "scan"
    /\ i < Len(line)
    /\ LET s == SplitStep([state |-> state, field_start |-> field_start,
                           fields |-> fields, ok |-> TRUE], line, i)
       IN  /\ state' = s.state
           /\ field_start' = s.field_start
           /\ fields' = s.fields
           /\ pc' = IF s.ok THEN "scan" ELSE "panic"
    /\ i' = i + 1
    /\ trace' = Append(trace, state)
    /\ UNCHANGED <<raw, line, cols, res>>
    /\ UNCHANGED parseVars
    /\ UNCHANGED mainVars

(* The end of the loop: the last field is pushed and _split_line returns. *)
ScanEnd ==
    /\ pc = "scan"
    /\ i = Len(line)
    /\ LET s == SplitLast([state |-> state, field_start |-> field_start,
                           fields |-> fields, ok |-> TRUE], line)
       IN  /\ fields' = s.fields
           /\ pc' = IF s.ok THEN "select" ELSE "panic"
    /\ UNCHANGED <<raw, line, i, state, field_start, trace, cols, res>>
    /\ UNCHANGED parseVars
    /\ UNCHANGED mainVars

(* Step 2 of cut_line, for the caller's cols. *)
Select ==
    /\ pc = "select"
    /\ \E cs \in ColLists :
          /\ cols' = cs
          /\ res' = Join(SelectFields(fields, cs))
    /\ pc' = "done"
    /\ UNCHANGED <<raw, line, i, state, field_start, fields, trace>>
    /\ UNCHANGED parseVars
    /\ UNCHANGED mainVars

Next == SplitBegin \/ ScanChar \/ ScanEnd \/ Select

Spec == Init /\ [][Next]_vars

----------------------------------------------------------------------------
(* parse_cols(cols, offset), one element of the spec at a time, in either  *)
(* build profile.                                                          *)

InitParse ==
    /\ colsArg \in ColSpecs
    /\ offset \in {0, 1, 2}
    /\ checks \in BOOLEAN
    /\ elems = <<>>
    /\ pk = 0
    /\ pres = <<>>
    /\ plog = <<>>
    /\ ppc = "call"
    /\ pmsg = ""
    /\ CutIdle
    /\ MainIdle

(* The assertion on offset, and the split of the spec on commas. *)
ParseBegin ==
    /\ ppc = "call"
    /\ IF offset = 0 \/ offset = 1
       THEN /\ elems' = SplitOn(colsArg, Comma)
            /\ ppc' = "loop"
            /\ pmsg' = pmsg
       ELSE /\ elems' = elems
            /\ ppc' = "panic"
            /\ pmsg' = "Invalid offset"
    /\ UNCHANGED <<colsArg, offset, checks, pk, pres, plog>>
    /\ UNCHANGED cutVars
    /\ UNCHANGED mainVars

(* One iteration of the loop over the elements. *)
ParseElem ==
    /\ ppc = "loop"
    /\ pk < Len(elems)
    /\ LET r == ElemResult(elems[pk + 1], offset, checks)
       IN  IF r.ok
           THEN /\ pres' = pres \o r.idxs
                /\ plog' = Append(plog, r.idxs)
                /\ pk' = pk + 1
                /\ UNCHANGED <<ppc, pmsg>>
           ELSE /\ ppc' = "panic"
                /\ pmsg' = r.msg
                /\ UNCHANGED <<pres, plog, pk>>
    /\ UNCHANGED <<colsArg, offset, checks, elems>>
    /\ UNCHANGED cutVars
    /\ UNCHANGED mainVars

(* The end of the loop: parse_cols returns res. *)
ParseReturn ==
    /\ ppc = "loop"
    /\ pk = Len(elems)
    /\ ppc' = "returned"
    /\ UNCHANGED <<colsArg, offset, checks, elems, pk, pres, plog, pmsg>>
    /\ UNCHANGED cutVars
    /\ UNCHANGED mainVars

NextParse == ParseBegin \/ ParseElem \/ ParseReturn

SpecParse == InitParse /\ [][NextParse]_vars

----------------------------------------------------------------------------
(* main                                                                    *)

(* parse_cols as a function: the loop over the elements. *)
RECURSIVE ParseLoop(_, _, _, _)
ParseLoop(es, acc, off, chk) ==
    IF es = <<>> THEN [ok |-> TRUE, idxs |-> acc, msg |-> ""]
    ELSE LET r == ElemResult(Head(es), off, chk)
         IN  IF r.ok THEN ParseLoop(Tail(es), acc \o r.idxs, off, chk)
             ELSE [ok |-> FALSE, idxs |-> <<>>, msg |-> r.msg]

(* parse_cols as a function: .ok is FALSE when it panics. *)
ParseCols(spec, off, chk) ==
    IF ~(off = 0 \/ off = 1) THEN Panic("Invalid offset")
    ELSE ParseLoop(SplitOn(spec, Comma), <<>>, off, chk)

(* cut_line as a function: .ok is FALSE when _split_line panics. *)
CutLine(l, cs) ==
    CHOOSE c \in {[ok |-> s.ok,
                   out |-> IF s.ok THEN Join(SelectFields(s.fields, cs)) ELSE <<>>] :
                        s \in {SplitLine(l)}} : TRUE

(* PreviewNumber with one-based numbers whatever the offset. *)
PreviewNumberOneBased(j, off) == j + 1

(* The column number preview prints for the field with index j. *)
PreviewNumber(j, off) == j + off

(* col_nums: the numbers of k fields, as decimal strings. *)
PreviewNumbers(k, off) == [j \in 1 .. k |-> Decimal(PreviewNumber(j - 1, off))]

(* An item of input that stands for a read_line that fails. *)
ReadError == <<"Err">>

(* The line printed (on stdout) when read_line fails. *)
ErrorLine == <<"Error while reading stdin">>

(* The message of the panic of a slice that cuts a character. *)
SlicePanic == "byte index is not a char boundary"

(* The Err arm with the loop going on to the next read. *)
AfterReadErrContinue == "clear"

(* Where the Err arm of the loop leads: break. *)
AfterReadErr == "exit"

(* line.clear() left out. *)
ClearedLineKept(l) == l

(* line.clear() *)
ClearedLine(l) == <<>>

(* The lines stdin offers: with and without quotes, with an unterminated
   quote, empty, without the final newline, and with a two-byte character. *)
MainLines ==
    { <<"a", ",", "b", "\n">>,
      <<"'", "a", ",", "b", "'", ",", "a", "\n">>,
      <<"'", "a", "\n">>,
      <<"\n">>,
      <<"b", ",", "a">>,
      <<Wide, ",", "a", "\n">>,
      <<Wide, "a", ",", "b", "\n">> }

(* A read of 0 bytes. *)
EndOfInput == <<"EOF">>

(* What the next read_line can find on stdin after the reads in inp: nothing
   more after a line without its newline, and after MaxReads reads. *)
StdinNext(inp) ==
    IF Len(inp) >= MaxReads THEN {EndOfInput}
    ELSE IF /\ inp # <<>>
            /\ inp[Len(inp)] # ReadError
            /\ inp[Len(inp)][Len(inp[Len(inp)])] # "\n"
    THEN {EndOfInput}
    ELSE MainLines \cup {ReadError, EndOfInput}

(* The column specs given on the command line; the empty one is the default. *)
MainColSpecs ==
    { <<>>, <<"1">>, <<"0">>, <<"3">>, <<"2", ",", "1">>, <<"1", ",", "1">>,
      <<"1", "-", "2">>, <<"2", "-", "1">>, <<"a">>, <<"1", ",", "a">> }

(* The state at the head of main: the defaults of the arguments, nothing
   read, nothing printed. *)
InitMain ==
    /\ preview = FALSE
    /\ offset = 1
    /\ colsArg = <<>>
    /\ checks \in BOOLEAN
    /\ input = <<>>
    /\ rd = 0
    /\ eof = FALSE
    /\ mline = <<>>
    /\ mcols = <<>>
    /\ stdout = <<>>
    /\ mpc = "args"
    /\ elems = <<>>
    /\ pk = 0
    /\ pres = <<>>
    /\ plog = <<>>
    /\ ppc = "idle"
    /\ pmsg = ""
    /\ CutIdle

mainFrame == <<cutVars, checks, elems, pk, pres, plog, ppc>>

(* The command line is parsed into preview, offset and cols. *)
MainArgs ==
    /\ mpc = "args"
    /\ preview' \in BOOLEAN
    /\ offset' \in {0, 1}
    /\ colsArg' \in MainColSpecs
    /\ mpc' = "start"
    /\ UNCHANGED <<input, rd, eof, mline, mcols, stdout, pmsg>>
    /\ UNCHANGED mainFrame

(* Preview mode: the one read_line and its Ok(0) and Err arms. *)
PreviewRead ==
    /\ mpc = "start"
    /\ preview
    /\ \E item \in StdinNext(input) :
          IF item = EndOfInput
          THEN /\ eof' = TRUE
               /\ mpc' = "exit"
               /\ UNCHANGED <<input, rd, mline, stdout>>
          ELSE IF item = ReadError
          THEN /\ input' = Append(input, item)
               /\ rd' = rd + 1
               /\ stdout' = Append(stdout, ErrorLine)
               /\ mpc' = "exit"
               /\ UNCHANGED <<eof, mline>>
          ELSE /\ input' = Append(input, item)
               /\ rd' = rd + 1
               /\ mline' = mline \o item
               /\ mpc' = "pprint"
               /\ UNCHANGED <<eof, stdout>>
    /\ UNCHANGED <<preview, offset, colsArg, mcols, pmsg>>
    /\ UNCHANGED mainFrame

(* Preview mode: the line is split, and the numbers and the fields printed. *)
PreviewPrint ==
    /\ mpc = "pprint"
    /\ \E s \in {SplitLine(mline)} :
           IF s.ok
           THEN /\ stdout' = stdout \o <<Join(PreviewNumbers(Len(s.fields), offset)),
                                         Join(s.fields)>>
                /\ mpc' = "exit"
                /\ pmsg' = pmsg
           ELSE /\ mpc' = "panic"
                /\ pmsg' = SlicePanic
                /\ stdout' = stdout
    /\ UNCHANGED <<preview, offset, colsArg, input, rd, eof, mline, mcols>>
    /\ UNCHANGED mainFrame

(* Selection mode: let cols = parse_cols(&cols, offset). *)
MainParse ==
    /\ mpc = "start"
    /\ ~preview
    /\ \E r \in {ParseCols(colsArg, offset, checks)} :
           IF r.ok
           THEN /\ mcols' = r.idxs
                /\ mpc' = "read"
                /\ pmsg' = pmsg
           ELSE /\ mpc' = "panic"
                /\ pmsg' = r.msg
                /\ mcols' = mcols
    /\ UNCHANGED <<preview, offset, colsArg, input, rd, eof, mline, stdout>>
    /\ UNCHANGED mainFrame

(* The loop: read_line and its Ok(0) and Err arms. *)
MainRead ==
    /\ mpc = "read"
    /\ \E item \in StdinNext(input) :
          IF item = EndOfInput
          THEN /\ eof' = TRUE
               /\ mpc' = "exit"
               /\ UNCHANGED <<input, rd, mline, stdout>>
          ELSE IF item = ReadError
          THEN /\ input' = Append(input, item)
               /\ rd' = rd + 1
               /\ stdout' = Append(stdout, ErrorLine)
               /\ mpc' = AfterReadErr
               /\ UNCHANGED <<eof, mline>>
          ELSE /\ input' = Append(input, item)
               /\ rd' = rd + 1
               /\ mline' = mline \o item
               /\ mpc' = "cut"
               /\ UNCHANGED <<eof, stdout>>
    /\ UNCHANGED <<preview, offset, colsArg, mcols, pmsg>>
    /\ UNCHANGED mainFrame

(* The loop: cut_line and println. *)
MainCut ==
    /\ mpc = "cut"
    /\ \E c \in {CutLine(mline, mcols)} :
           IF c.ok
           THEN /\ stdout' = Append(stdout, c.out)
                /\ mpc' = "clear"
                /\ pmsg' = pmsg
           ELSE /\ mpc' = "panic"
                /\ pmsg' = SlicePanic
                /\ stdout' = stdout
    /\ UNCHANGED <<preview, offset, colsArg, input, rd, eof, mline, mcols>>
    /\ UNCHANGED mainFrame

(* The loop: line.clear(), and on to the next read. *)
MainClear ==
    /\ mpc = "clear"
    /\ mline' = ClearedLine(mline)
    /\ mpc' = "read"
    /\ UNCHANGED <<preview, offset, colsArg, input, rd, eof, mcols, stdout, pmsg>>
    /\ UNCHANGED mainFrame

NextMain ==
    MainArgs \/ PreviewRead \/ PreviewPrint \/ MainParse \/ MainRead \/ MainCut \/ MainClear

SpecMain == InitMain /\ [][NextMain]_vars

(* The program runs on until it exits or panics. *)
SpecMainFair == SpecMain /\ WF_vars(NextMain)

----------------------------------------------------------------------------
(* Properties of the tokenizer and the selector.                           *)

(* The number of commas among the first k characters that were scanned in
   Normal state. *)
NormalCommas(k) ==
    Cardinality({j \in 1 .. k : line[j] = Comma /\ trace[j] = "Normal"})

(* The QuoteState after character k was scanned. *)
StateAfter(k) == IF k < Len(trace) THEN trace[k + 1] ELSE state

Returned == pc \in {"select", "done"}

(* C1: a field is ended only by a comma scanned in Normal state: while the
   line is scanned the number of fields pushed is the number of commas scanned
   in Normal state (a comma scanned in any other state pushes nothing), and
   the sequence split_line returns has that number plus one fields, the last
   one pushed whatever it holds. *)
C1_FieldCount ==
    /\ pc = "scan" => Len(fields) = NormalCommas(i)
    /\ pc = "panic" => Len(fields) <= NormalCommas(Len(trace))
    /\ Returned => Len(fields) = NormalCommas(Len(line)) + 1

(* A returned line with a comma inside a quote, a comma outside, and an empty
   last field. *)
C1_Witness ==
    /\ Returned
    /\ \E j \in 1 .. Len(line) : line[j] = Comma /\ trace[j] # "Normal"
    /\ \E j \in 1 .. Len(line) : line[j] = Comma /\ trace[j] = "Normal"
    /\ fields[Len(fields)] = <<>>

(* C2: whenever split_line returns, its fields joined with single commas are
   the trimmed line. *)
C2_Lossless == Returned => Join(fields) = Utf8(Trim(raw))

(* C4: split_line and cut_line return normally for every line. *)
C4_NeverFails == pc # "panic"

(* The entry the selector owes for the k-th index of cols. *)
Entry(k) == IF cols[k] < Len(fields) THEN fields[cols[k] + 1] ELSE <<>>

(* The offset in res at which the k-th entry starts: the entries before it,
   each followed by one comma. *)
RECURSIVE EntryStart(_)
EntryStart(k) == IF k = 1 THEN 0 ELSE EntryStart(k - 1) + Len(Entry(k - 1)) + 1

(* C3: for the fields F split_line returned and any cols, cut_line returns
   len(cols) entries separated by single commas, the k-th being F[cols[k]]
   verbatim when cols[k] < len(F) and empty otherwise, in the order of cols
   and with its duplicates; step 2 of cut_line has no failing path. *)
C3_Selection ==
    pc = "done" =>
        /\ \A k \in 1 .. Len(cols) :
              /\ SubSeq(res, EntryStart(k) + 1, EntryStart(k) + Len(Entry(k))) = Entry(k)
              /\ k < Len(cols) =>
                    /\ EntryStart(k) + Len(Entry(k)) < Len(res)
                    /\ res[EntryStart(k) + Len(Entry(k)) + 1] = Comma
        /\ Len(res) = IF cols = <<>> THEN 0
                      ELSE EntryStart(Len(cols)) + Len(Entry(Len(cols)))

(* A selection with an index out of bounds before an index in bounds. *)
C3_Witness ==
    /\ pc = "done"
    /\ Len(cols) = 2
    /\ cols[1] >= Len(fields)
    /\ cols[2] < Len(fields)
    /\ fields[cols[2] + 1] # <<>>

(* C5: inside a quoted region a backslash moves to the escape state of that
   quote type, and the character scanned in an escape state, whatever it is,
   returns to the same quote type: it never closes the quote.  So after an
   even run of backslashes the matching quote closes the region, and after
   an odd run it does not. *)
C5_Escape ==
    \A k \in 1 .. Len(trace) :
        /\ trace[k] = "SingleQuote" /\ line[k] = Backslash => StateAfter(k) = "SingleEscape"
        /\ trace[k] = "DoubleQuote" /\ line[k] = Backslash => StateAfter(k) = "DoubleEscape"
        /\ trace[k] = "SingleEscape" => StateAfter(k) = "SingleQuote"
        /\ trace[k] = "DoubleEscape" => StateAfter(k) = "DoubleQuote"
        /\ \A q \in {"SingleQuote", "DoubleQuote"} :
           \A n \in 0 .. k - 1 :
              ( /\ line[k] = (IF q = "SingleQuote" THEN SQuote ELSE DQuote)
                /\ trace[k - n] = q
                /\ \A j \in k - n .. k - 1 : line[j] = Backslash )
              => StateAfter(k) = (IF n % 2 = 0 THEN "Normal" ELSE q)

(* An escaped quote character followed by a comma that is still inside the
   quote. *)
C5_Witness ==
    \E k \in 2 .. Len(trace) - 1 :
        /\ trace[k] = "SingleEscape" /\ line[k] = SQuote
        /\ StateAfter(k) = "SingleQuote"
        /\ line[k + 1] = Comma /\ StateAfter(k + 1) = "SingleQuote"

(* No character closes a quote of type q after position j. *)
NeverClosedAfter(j, q) ==
    \A k \in j + 1 .. Len(trace) :
        ~(trace[k] = q /\ line[k] = (IF q = "SingleQuote" THEN SQuote ELSE DQuote))

(* C6: a quote is closed only by the unescaped quote character of its own
   type, the other quote character being inert inside it; so when a quote is
   opened and never closed by its own type, no later character is scanned in
   Normal state and the rest of the line is one field. *)
C6_Mismatch ==
    /\ \A k \in 1 .. Len(trace) :
          /\ trace[k] = "SingleQuote" /\ line[k] = DQuote => StateAfter(k) = "SingleQuote"
          /\ trace[k] = "DoubleQuote" /\ line[k] = SQuote => StateAfter(k) = "DoubleQuote"
          /\ trace[k] \in {"SingleQuote", "SingleEscape"} /\ StateAfter(k) = "Normal"
                => trace[k] = "SingleQuote" /\ line[k] = SQuote
          /\ trace[k] \in {"DoubleQuote", "DoubleEscape"} /\ StateAfter(k) = "Normal"
                => trace[k] = "DoubleQuote" /\ line[k] = DQuote
    /\ \A j \in 1 .. Len(trace) :
       \A q \in {"SingleQuote", "DoubleQuote"} :
          ( /\ trace[j] = "Normal"
            /\ StateAfter(j) = q
            /\ NeverClosedAfter(j, q) )
          => /\ \A k \in j + 1 .. Len(trace) : trace[k] # "Normal"
             /\ Returned => Len(fields) = NormalCommas(j) + 1

(* The line a,'b,b",c of the tests, returned as two fields. *)
C6_Witness ==
    /\ Returned
    /\ line = <<"a", ",", "'", "b", ",", "b", "\"", ",", "c">>
    /\ Len(fields) = 2
    /\ fields[2] = <<"'", "b", ",", "b", "\"", ",", "c">>

----------------------------------------------------------------------------
(* Properties of the column-spec parser.  The elements of the spec and     *)
(* their meaning are stated here from the text of the spec string, apart   *)
(* from the parser's own result.                                           *)

CommasOf(s) == {j \in 1 .. Len(s) : s[j] = Comma}

NumSpecElems == Cardinality(CommasOf(colsArg)) + 1

(* The position of the n-th comma of the spec string, 0 for n = 0 and one
   past the end for the comma after the last element. *)
NthComma(n) ==
    IF n = 0 THEN 0
    ELSE IF n = NumSpecElems THEN Len(colsArg) + 1
    ELSE CHOOSE j \in CommasOf(colsArg) :
             Cardinality({h \in CommasOf(colsArg) : h < j}) = n - 1

(* The e-th element of the spec string, without the whitespace around it. *)
SpecElem(e) == Trim(SubSeq(colsArg, NthComma(e - 1) + 1, NthComma(e) - 1))

DashesOf(s) == {j \in 1 .. Len(s) : s[j] = "-"}

(* A non-negative integer that fits a usize: decimal digits, which a plus
   sign may precede. *)
IsNumeral(s) ==
    LET d == IF s # <<>> /\ s[1] = "+" THEN Tail(s) ELSE s
    IN  /\ d # <<>>
        /\ \A j \in 1 .. Len(d) : IsDigit(d[j])
        /\ DecVal(d) <= UsizeMax

NumeralVal(s) == DecVal(IF s[1] = "+" THEN Tail(s) ELSE s)

IsRangeElem(s) == DashesOf(s) # {}

RangeStart(s) == SubSeq(s, 1, (CHOOSE j \in DashesOf(s) : TRUE) - 1)

RangeEnd(s) == SubSeq(s, (CHOOSE j \in DashesOf(s) : TRUE) + 1, Len(s))

(* A valid range element a-b for the offset. *)
ValidRange(s, off) ==
    /\ Cardinality(DashesOf(s)) = 1
    /\ IsNumeral(RangeStart(s))
    /\ IsNumeral(RangeEnd(s))
    /\ NumeralVal(RangeStart(s)) >= off
    /\ IF off = 0
       THEN NumeralVal(RangeStart(s)) < NumeralVal(RangeEnd(s))
       ELSE NumeralVal(RangeStart(s)) <= NumeralVal(RangeEnd(s))

(* The indices a valid range a-b stands for: a-1 .. b-1 with offset 1 (the
   closed range), a .. b-1 with offset 0 (the half-open range). *)
RangeExpansion(s, off) ==
    LET a == NumeralVal(RangeStart(s))
        b == NumeralVal(RangeEnd(s))
    IN  [j \in 1 .. (IF off = 1 THEN b - a + 1 ELSE b - a) |-> a - off + (j - 1)]

(* C7: for offset 0 or 1, a valid range element a-b pushes the zero-based
   indices of its expansion in ascending order: b-a+1 indices from a-1 with
   offset 1, b-a indices from a with offset 0; the parser does not fail on it. *)
C7_RangeExpansion ==
    offset \in {0, 1} =>
        \A e \in 1 .. NumSpecElems :
            ValidRange(SpecElem(e), offset) =>
                /\ e <= Len(plog) => plog[e] = RangeExpansion(SpecElem(e), offset)
                /\ ~(ppc = "panic" /\ pk = e - 1)

(* What the e-th element of the spec string contributes. *)
Contribution(e) ==
    IF IsRangeElem(SpecElem(e))
    THEN RangeExpansion(SpecElem(e), offset)
    ELSE <<NumeralVal(SpecElem(e)) - offset>>

RECURSIVE ContributionsUpTo(_)
ContributionsUpTo(e) ==
    IF e = 0 THEN <<>> ELSE ContributionsUpTo(e - 1) \o Contribution(e)

(* C8: the list parse_cols returns is the concatenation, in the order of the
   elements, of value - offset for a single index and of the expansion for a
   range, neither sorted nor de-duplicated. *)
C8_OrderPreserved ==
    ppc = "returned" => pres = ContributionsUpTo(NumSpecElems)

(* A malformed element of the spec. *)
Malformed(s, off) ==
    IF IsRangeElem(s)
    THEN \/ Cardinality(DashesOf(s)) # 1
         \/ ~IsNumeral(RangeStart(s))
         \/ ~IsNumeral(RangeEnd(s))
         \/ NumeralVal(RangeStart(s)) < off
         \/ off = 0 /\ NumeralVal(RangeStart(s)) >= NumeralVal(RangeEnd(s))
         \/ off = 1 /\ NumeralVal(RangeStart(s)) > NumeralVal(RangeEnd(s))
    ELSE ~IsNumeral(s)

(* C9: a malformed element anywhere in the spec makes parse_cols fail: the
   loop never gets past such an element and parse_cols never returns, also
   when the elements before it were valid and have pushed their indices. *)
C9_MalformedFails ==
    \A e \in 1 .. NumSpecElems :
        Malformed(SpecElem(e), offset) =>
            /\ pk < e
            /\ Len(plog) < e
            /\ ppc # "returned"

(* The parse has failed at a malformed element after a valid one. *)
C9_Witness ==
    /\ ppc = "panic"
    /\ pk >= 1
    /\ pres # <<>>
    /\ Malformed(SpecElem(pk + 1), offset)
    /\ ~Malformed(SpecElem(1), offset)

(* C10: a single index below the offset makes parse_cols fail, and no index
   of a returned list is negative or the wrapped difference. *)
C10_UnderflowFails ==
    ppc = "returned" =>
        /\ \A e \in 1 .. NumSpecElems :
              ~( /\ ~IsRangeElem(SpecElem(e))
                 /\ IsNumeral(SpecElem(e))
                 /\ NumeralVal(SpecElem(e)) < offset )
        /\ \A j \in 1 .. Len(pres) : pres[j] >= 0

----------------------------------------------------------------------------
(* The transition table of the tokenizer, row by row.                      *)

TableRows ==
    { <<"Normal", SQuote, "SingleQuote">>,
      <<"SingleQuote", SQuote, "Normal">>,
      <<"Normal", DQuote, "DoubleQuote">>,
      <<"DoubleQuote", DQuote, "Normal">>,
      <<"SingleQuote", Backslash, "SingleEscape">>,
      <<"DoubleQuote", Backslash, "DoubleEscape">> }

(* The state the table gives for a (state, character) pair: the two escape
   states return to their quote on any character, a pair the table does not
   list leaves the state as it is. *)
TableNext(st, c) ==
    IF st = "SingleEscape" THEN "SingleQuote"
    ELSE IF st = "DoubleEscape" THEN "DoubleQuote"
    ELSE IF \E r \in TableRows : r[1] = st /\ r[2] = c
         THEN (CHOOSE r \in TableRows : r[1] = st /\ r[2] = c)[3]
         ELSE st

(* The position of the last comma scanned in Normal state, 0 when none. *)
LastNormalComma ==
    LET S == {j \in 1 .. Len(trace) : line[j] = Comma /\ trace[j] = "Normal"}
    IN  IF S = {} THEN 0 ELSE CHOOSE j \in S : \A h \in S : h <= j

(* C17: the state after every scanned character is the one the transition
   table gives for the state and the character it was scanned in, so a
   backslash in Normal state is inert; the field cursor is moved by a comma
   scanned in Normal state and by nothing else; the state is one of the five
   states and the first character is scanned in Normal state. *)
C17_TransitionTable ==
    /\ state \in QuoteStates
    /\ \A k \in 1 .. Len(trace) :
          /\ trace[k] \in QuoteStates
          /\ StateAfter(k) = TableNext(trace[k], line[k])
    /\ Len(trace) >= 1 => trace[1] = "Normal"
    /\ pc = "scan" => field_start = LastNormalComma

(* A backslash scanned in Normal state, then a comma that ends a field. *)
C17_Witness ==
    /\ pc = "scan"
    /\ \E k \in 1 .. Len(trace) - 1 :
          /\ trace[k] = "Normal" /\ line[k] = Backslash
          /\ trace[k + 1] = "Normal" /\ line[k + 1] = Comma
          /\ field_start = k + 1
          /\ Len(fields) = 1

(* The scan of a text on its own from state st: the state it ends in, or
   "Split" when it meets a comma in Normal state. *)
RECURSIVE ScanAlone(_, _)
ScanAlone(st, s) ==
    IF s = <<>> THEN st
    ELSE IF st = "Normal" /\ Head(s) = Comma THEN "Split"
    ELSE ScanAlone(TableNext(st, Head(s)), Tail(s))

(* C18: every comma that ends a field leaves the tokenizer in Normal state
   for the next field, and every returned field but the last, scanned on
   its own from Normal state, ends in Normal state without meeting a comma
   in Normal state. *)
C18_FieldsQuoteClosed ==
    /\ \A k \in 1 .. Len(trace) :
          line[k] = Comma /\ trace[k] = "Normal" => StateAfter(k) = "Normal"
    /\ Returned =>
          \A f \in 1 .. Len(fields) - 1 : ScanAlone("Normal", fields[f]) = "Normal"

----------------------------------------------------------------------------
(* How the parser fails, and what it returns.                              *)

(* C13 as stated: no parse failure (wrong part count, non-integer token,
   invalid end-point order, range start below the offset) is an abnormal
   abort of the process. *)
C13_NonCrashing ==
    offset \in {0, 1} =>
        ~(ppc = "panic" /\ Malformed(SpecElem(pk + 1), offset))

(* The message of the assertion a malformed element fails. *)
ExpectedMessage(s, off) ==
    IF ~IsRangeElem(s) THEN "Invalid index"
    ELSE IF Cardinality(DashesOf(s)) # 1 THEN "Invalid range (parts)"
    ELSE IF ~IsNumeral(RangeStart(s)) THEN "Invalid range: start index is not an integer"
    ELSE IF ~IsNumeral(RangeEnd(s)) THEN "Invalid range: end index is not an integer"
    ELSE IF NumeralVal(RangeStart(s)) < off THEN "Start index must be at least offset"
    ELSE "Overlapping end-points"

(* C13 as amended: every such parse failure aborts parse_cols with a panic
   whose message names the reason: the loop stops at the malformed element,
   parse_cols does not return, and the panic carries the message of the
   assertion that element fails. *)
C13_PanicsWithMessage ==
    offset \in {0, 1} =>
        \A e \in 1 .. NumSpecElems :
            Malformed(SpecElem(e), offset) =>
                /\ pk < e
                /\ ppc # "returned"
                /\ ppc = "panic" /\ pk = e - 1 =>
                      pmsg = ExpectedMessage(SpecElem(e), offset)

(* A panic on a range whose end-points are in the wrong order. *)
C13_Witness ==
    /\ ppc = "panic"
    /\ offset \in {0, 1}
    /\ Malformed(SpecElem(pk + 1), offset)
    /\ pmsg = "Overlapping end-points"

(* C19: a returned index list is not empty, and every element of the spec
   has pushed at least one index. *)
C19_NonEmpty ==
    ppc = "returned" =>
        /\ pres # <<>>
        /\ Len(plog) = NumSpecElems
        /\ \A e \in 1 .. Len(plog) : plog[e] # <<>>

----------------------------------------------------------------------------
(* Properties of main.                                                     *)

(* Some element of the column spec on the command line is malformed. *)
SpecMalformed == \E e \in 1 .. NumSpecElems : Malformed(SpecElem(e), offset)

(* C11: in a run whose column spec is malformed nothing is read from stdin
   and nothing is printed, whichever flags are given: the run is still
   before parse_cols or has failed with the parse error. *)
C11_FailClosed ==
    SpecMalformed =>
        /\ rd = 0
        /\ stdout = <<>>
        /\ mpc \in {"args", "start", "panic"}

(* C12: in selection mode every line read has its output line on stdout
   before the next read and at the end of the run, the k-th line of stdout
   is cut_line of the k-th input line, and stdout holds nothing else. *)
C12_OneLinePerLine ==
    ~preview =>
        /\ Len(stdout) <= rd
        /\ mpc \in {"read", "exit", "panic"} => Len(stdout) = rd
        /\ \A k \in 1 .. Len(stdout) :
              /\ input[k] # ReadError
              /\ CutLine(input[k], mcols).ok
              /\ stdout[k] = CutLine(input[k], mcols).out

(* C14: a failed read and a read of 0 bytes each end the run at once, a run
   that has ended takes no further step, what is on stdout is never changed
   by a later step, and every run ends. *)
C14_ReadFailureTerminal ==
    /\ [](rd > 0 /\ input[rd] = ReadError => mpc = "exit")
    /\ [](eof => mpc = "exit")
    /\ [][mpc # "exit"]_vars
    /\ [][/\ Len(stdout') >= Len(stdout)
          /\ SubSeq(stdout', 1, Len(stdout)) = stdout]_vars
    /\ <>(mpc \in {"exit", "panic"})

(* A read has failed after a line was cut and printed, and the run has ended
   with the output of the line followed by the error message. *)
C14_Witness ==
    /\ mpc = "exit"
    /\ ~preview
    /\ rd = 2
    /\ input[1] # ReadError
    /\ input[2] = ReadError
    /\ ~eof
    /\ stdout = <<CutLine(input[1], mcols).out, ErrorLine>>

(* C15: no state is carried between lines: once parse_cols has returned,
   cols is its result in every later state; the line buffer is empty at
   each read and holds just the line read when cut_line is called; and each
   line printed for an input line is cut_line of that line and cols alone. *)
C15_NoCarriedState ==
    ~preview /\ mpc \in {"read", "cut", "clear", "exit"} =>
        /\ ParseCols(colsArg, offset, checks).ok
        /\ mcols = ParseCols(colsArg, offset, checks).idxs
        /\ mpc = "read" => mline = <<>>
        /\ mpc = "cut" => mline = input[rd]
        /\ \A k \in 1 .. Len(stdout) :
              input[k] # ReadError => stdout[k] = CutLine(input[k], mcols).out

(* A line with an unterminated quote has been cut (its one field comes after
   the empty string of the missing column 2), and after it a line with two
   fields, whose output is its two fields in the order of the spec. *)
C15_Witness ==
    /\ ~preview
    /\ mpc = "clear"
    /\ colsArg = <<"2", ",", "1">>
    /\ offset = 1
    /\ input = << <<"'", "a", "\n">>, <<"a", ",", "b", "\n">> >>
    /\ stdout = << <<",", "'", "a">>, <<"b", ",", "a">> >>

(* The line of column numbers off, off + 1, ..., off + k - 1. *)
NumberLine(k, off) == Join([j \in 1 .. k |-> Decimal(off + j - 1)])

(* C16: in preview mode at most one line is read, cols is never parsed or
   used, nothing is printed on empty input, and once the first line is read
   and handled the run has ended with two lines on stdout: the numbers
   offset .. offset + k - 1 of its k fields, and its fields. *)
C16_Preview ==
    preview /\ mpc # "start" =>
        /\ rd <= 1
        /\ mcols = <<>>
        /\ mpc \in {"pprint", "exit", "panic"}
        /\ eof => stdout = <<>>
        /\ rd = 1 /\ input[1] # ReadError /\ mpc # "pprint" =>
              /\ mpc = "exit"
              /\ SplitLine(input[1]).ok
              /\ stdout = <<NumberLine(Len(SplitLine(input[1]).fields), offset),
                            Join(SplitLine(input[1]).fields)>>

(* The column numbers preview has printed, as it printed them. *)
PrintedNumbers == SplitOn(stdout[1], Comma)

(* C20: once preview has printed its two lines, the j-th number printed,
   given as the column spec with the same offset, parses in either build to
   the single index j - 1, and cut_line of the previewed line with that
   index is the j-th field previewed. *)
C20_PreviewAgrees ==
    preview /\ mpc = "exit" /\ Len(stdout) = 2 =>
        \A j \in 1 .. Len(PrintedNumbers) :
            /\ \A chk \in BOOLEAN :
                  /\ ParseCols(PrintedNumbers[j], offset, chk).ok
                  /\ ParseCols(PrintedNumbers[j], offset, chk).idxs = <<j - 1>>
            /\ CutLine(input[1], ParseCols(PrintedNumbers[j], offset, checks).idxs).out
                  = SplitLine(input[1]).fields[j]

(* Preview with offset 0 has printed the numbers 0,1 over the fields a,b. *)
C20_Witness ==
    /\ preview
    /\ mpc = "exit"
    /\ offset = 0
    /\ input = << <<"a", ",", "b", "\n">> >>
    /\ stdout = << <<"0", ",", "1">>, <<"a", ",", "b">> >>

====
